---- MODULE Spec2Model ----
(***************************************************************************)
(* State-machine model of src/mariomod.py: the per-frame loop of Game.run  *)
(* (handle_events, then update = spawn_coin, all_sprites.update,           *)
(* handle_collisions) over the sprite records Player, Enemy, Platform,     *)
(* Coin and HealthPowerup.                                                 *)
(*                                                                         *)
(* Units.  Positions are pixels (pygame.Rect holds integers; x, y are the  *)
(* top-left corner).  velocity_y is held in tenths of a pixel per frame    *)
(* (GRAVITY = 0.8 is 8 tenths) together with vy_base, the constant it was  *)
(* last assigned (0 or JUMP_POWER): the Python value is the IEEE double    *)
(* obtained by adding 0.8 to that constant k times, and FloatAdjust holds  *)
(* the cases where int(rect.y + velocity_y) on doubles differs from the    *)
(* exact quotient.                                                         *)
(***************************************************************************)
EXTENDS Integers, Sequences, FiniteSets, TLC

\* ---------------------------------------------------------------- constants
WIDTH == 1100
HEIGHT == 720
FPS == 60
GRAVITY == 8
JUMP_POWER == 0 - 160
PLAYER_SPEED == 8
COIN_SPAWN_RATE == 3000
MAX_ENEMIES == 10
MAX_PLATFORMS == 15
ENEMY_SPAWN_SCORE_INTERVAL == 500
PLAYER_W == 32
PLAYER_H == 64
ENEMY_SIZE == 32
ENEMY_SPEED == 2
ENEMY_Y == HEIGHT - 80
INITIAL_ENEMIES == 3
COIN_SIZE == 16
COIN_VALUE == 10
POWERUP_SIZE == 20
POWERUP_OFFSET == 40
POWERUP_HEAL == 30
MAX_HEALTH == 100
ENEMY_DAMAGE == 10
PLATFORM_H == 20
PLATFORM_SPEED == 2
PLATFORM_RANGE == 100

\* ------------------------------------------------------------------- helpers
Min(a, b) == IF a < b THEN a ELSE b

Abs(a) == IF a < 0 THEN 0 - a ELSE a

\* int() of a quotient by 10: truncation toward zero, as pygame stores a float
\* assigned to a Rect coordinate.
TruncTenths(t) == IF t >= 0 THEN t \div 10 ELSE 0 - ((0 - t) \div 10)

\* pygame.Rect.colliderect for rectangles of positive size: strict overlap on
\* both axes (rectangles that only touch do not collide).
Collide(ax, ay, aw, ah, bx, by, bw, bh) ==
    /\ ax < bx + bw
    /\ ay < by + bh
    /\ ax + aw > bx
    /\ ay + ah > by

\* ------------------------------------------------- velocity_y as a double
\* Number of "velocity_y += GRAVITY" since velocity_y was last assigned.
VyK(p) == (p.velocity_y - p.vy_base) \div GRAVITY

\* <<lo, hi, d>>: for lo <= y <= hi, int(y + velocity_y) on doubles is the
\* exact truncation plus d.  The double differs from the exact value only when
\* the exact value is a whole number (k a multiple of 5); computed for
\* -100 <= y <= 720 and k <= 89.
FloatTable(base, k) ==
    IF base = 0 THEN
        CASE k = 10 -> <<0 - 7, 0, 0 - 1>>
          [] k = 15 -> <<0 - 28, 0 - 13, 1>>
          [] k = 20 -> <<0 - 48, 0 - 17, 1>>
          [] k = 25 -> <<0 - 84, 0 - 21, 1>>
          [] k = 30 -> <<0 - 100, 0 - 25, 1>>
          [] k = 35 -> <<0 - 100, 0 - 29, 1>>
          [] k = 40 -> <<0 - 100, 0 - 33, 1>>
          [] k = 50 -> <<0 - 39, 88, 0 - 1>>
          [] k = 55 -> <<0 - 43, 212, 0 - 1>>
          [] k = 60 -> <<0 - 47, 464, 0 - 1>>
          [] k = 65 -> <<0 - 51, 460, 0 - 1>>
          [] k = 70 -> <<0 - 55, 720, 0 - 1>>
          [] k = 75 -> <<0 - 59, 720, 0 - 1>>
          [] k = 80 -> <<0 - 63, 720, 0 - 1>>
          [] k = 85 -> <<0 - 67, 720, 0 - 1>>
          [] OTHER -> <<0, 0 - 1, 0>>
    ELSE
        CASE k = 5 -> <<0 - 20, 11, 1>>
          [] k = 10 -> <<0 - 56, 7, 1>>
          [] k = 15 -> <<0 - 60, 3, 1>>
          [] k = 20 -> <<0 - 64, 0 - 1, 1>>
          [] k = 25 -> <<0 - 68, 0 - 5, 1>>
          [] k = 30 -> <<0 - 72, 0 - 9, 1>>
          [] k = 35 -> <<0 - 100, 0 - 13, 1>>
          [] k = 40 -> <<0 - 100, 0 - 17, 1>>
          [] k = 45 -> <<0 - 100, 0 - 21, 1>>
          [] k = 50 -> <<0 - 100, 0 - 25, 1>>
          [] k = 55 -> <<0 - 100, 0 - 29, 1>>
          [] k = 60 -> <<0 - 100, 0 - 33, 1>>
          [] k = 65 -> <<0 - 100, 0 - 37, 1>>
          [] k = 70 -> <<0 - 39, 24, 0 - 1>>
          [] k = 75 -> <<0 - 43, 212, 0 - 1>>
          [] k = 80 -> <<0 - 47, 464, 0 - 1>>
          [] k = 85 -> <<0 - 51, 460, 0 - 1>>
          [] OTHER -> <<0, 0 - 1, 0>>

FloatAdjust(y, base, k) ==
    LET e == FloatTable(base, k)
    IN  IF e[1] <= y /\ y <= e[2] THEN e[3] ELSE 0

\* rect.y after "self.rect.y += self.velocity_y" (velocity_y already raised).
AddVelocityY(y, vy, base) ==
    TruncTenths(10 * y + vy) + FloatAdjust(y, base, (vy - base) \div GRAVITY)

\* "velocity_y > 0" on the double: 20 additions of 0.8 to -16.0 leave
\* 5.1e-15, which is positive; every other value has the sign of the exact one.
VelocityPositive(p) ==
    \/ p.velocity_y > 0
    \/ (p.velocity_y = 0 /\ p.vy_base = JUMP_POWER)

\* ------------------------------------------------------ HealthPowerup.update
\* int(2 * math.sin(bounce)) after k additions of 0.1 to bounce: 1 while
\* sin >= 0.5, -1 while sin <= -0.5, else 0 (phase in units of 1e-7 rad;
\* agrees with the doubles for k <= 2100).
BounceStep(k) ==
    LET t == (k * 1000000) % 62831853
    IN  IF 5235988 <= t /\ t <= 26179938 THEN 1
        ELSE IF 36651915 <= t /\ t <= 57595865 THEN 0 - 1
        ELSE 0

PowerupUpdate(u) ==
    [u EXCEPT !.bounce = u.bounce + 1, !.y = u.y + BounceStep(u.bounce + 1)]

\* ------------------------------------------------------------- Player
NewPlayer ==
    [x |-> WIDTH \div 4 - PLAYER_W \div 2,
     y |-> HEIGHT \div 2 - PLAYER_H \div 2,
     velocity_x |-> 0,
     velocity_y |-> 0,
     vy_base |-> 0,
     on_ground |-> FALSE,
     jumping |-> FALSE,
     health |-> MAX_HEALTH,
     score |-> 0]

ClampLeft(x) == IF x < 0 THEN 0 ELSE x

ClampRight(x) == IF x + PLAYER_W > WIDTH THEN WIDTH - PLAYER_W ELSE x

PlayerUpdate(p) ==
    LET vy == p.velocity_y + GRAVITY
        x1 == ClampRight(ClampLeft(p.x + p.velocity_x))
        y1 == AddVelocityY(p.y, vy, p.vy_base)
    IN  IF y1 + PLAYER_H > HEIGHT
        THEN [p EXCEPT !.x = x1, !.y = HEIGHT - PLAYER_H, !.on_ground = TRUE,
                       !.velocity_y = 0, !.vy_base = 0, !.jumping = FALSE]
        ELSE [p EXCEPT !.x = x1, !.y = y1, !.velocity_y = vy]

\* Faulty variant of PlayerJump: no test of on_ground and jumping.
PlayerJumpAlways(p) ==
    [p EXCEPT !.velocity_y = JUMP_POWER, !.vy_base = JUMP_POWER,
              !.on_ground = FALSE, !.jumping = TRUE]

PlayerJump(p) ==
    IF p.on_ground /\ ~p.jumping
    THEN [p EXCEPT !.velocity_y = JUMP_POWER, !.vy_base = JUMP_POWER,
                   !.on_ground = FALSE, !.jumping = TRUE]
    ELSE p

\* ------------------------------------------------------------- Enemy
NewEnemy(x) == [x |-> x, direction |-> 1]

EnemyUpdate(e) ==
    LET x1 == e.x + ENEMY_SPEED * e.direction
    IN  IF x1 + ENEMY_SIZE > WIDTH \/ x1 < 0
        THEN [x |-> x1, direction |-> 0 - e.direction]
        ELSE [x |-> x1, direction |-> e.direction]

\* ------------------------------------------------------------- Platform
\* Faulty variant of PlatformUpdate: the turn at the range, not beyond it.
PlatformUpdateAtRange(q) ==
    IF q.moving
    THEN LET x1 == q.x + PLATFORM_SPEED * q.direction
         IN  IF Abs(x1 - q.start_x) >= PLATFORM_RANGE
             THEN [q EXCEPT !.x = x1, !.direction = 0 - q.direction]
             ELSE [q EXCEPT !.x = x1]
    ELSE q

PlatformUpdate(q) ==
    IF q.moving
    THEN LET x1 == q.x + PLATFORM_SPEED * q.direction
         IN  IF Abs(x1 - q.start_x) > PLATFORM_RANGE
             THEN [q EXCEPT !.x = x1, !.direction = 0 - q.direction]
             ELSE [q EXCEPT !.x = x1]
    ELSE q

\* ------------------------------------------------------------- Game
\* setup_level: lay[i] = [x, w, moving] are the random draws of platform i-1,
\* exs[j] the random x of initial enemy j.
PlatformSpacing(n) == (HEIGHT - 200) \div n

SetupPlatforms(n, lay) ==
    [i \in 1..n |->
        [x |-> lay[i].x,
         y |-> (HEIGHT - 40) - (i - 1) * PlatformSpacing(n),
         w |-> lay[i].w,
         moving |-> IF i > 1 THEN lay[i].moving ELSE FALSE,
         start_x |-> lay[i].x,
         direction |-> 1]]

SetupEnemies(exs) == [j \in 1..INITIAL_ENEMIES |-> NewEnemy(exs[j])]

\* Game.__init__(num_platforms) followed by setup_level.
NewGame(num, lay, exs) ==
    LET n == Min(num, MAX_PLATFORMS)
    IN  [running |-> TRUE,
         game_over |-> FALSE,
         last_coin_spawn |-> 0,
         num_platforms |-> n,
         player |-> NewPlayer,
         platforms |-> SetupPlatforms(n, lay),
         enemies |-> SetupEnemies(exs),
         coins |-> << >>,
         powerups |-> << >>]

\* spawn_coin at clock reading t; d = [x, y, powerup] are its random draws.
\* Faulty variant of SpawnDue: the time of the last spawn left out.
SpawnDueSinceStart(g, t) == t > COIN_SPAWN_RATE

SpawnDue(g, t) == t - g.last_coin_spawn > COIN_SPAWN_RATE

SpawnCoin(g, t, d) ==
    IF SpawnDue(g, t)
    THEN [g EXCEPT
            !.last_coin_spawn = t,
            !.coins = Append(@, [x |-> d.x - COIN_SIZE \div 2,
                                 y |-> d.y - COIN_SIZE \div 2]),
            !.powerups = IF d.powerup
                         THEN Append(@, [x |-> d.x + POWERUP_OFFSET - POWERUP_SIZE \div 2,
                                         y |-> d.y - POWERUP_SIZE \div 2,
                                         bounce |-> 0])
                         ELSE @]
    ELSE g

\* all_sprites.update(): every sprite's update; a Coin has none.
UpdateSprites(g) ==
    [g EXCEPT
        !.player = PlayerUpdate(@),
        !.platforms = [i \in 1..Len(@) |-> PlatformUpdate(@[i])],
        !.enemies = [i \in 1..Len(@) |-> EnemyUpdate(@[i])],
        !.powerups = [i \in 1..Len(@) |-> PowerupUpdate(@[i])]]

HitsPlatform(p, q) == Collide(p.x, p.y, PLAYER_W, PLAYER_H, q.x, q.y, q.w, PLATFORM_H)

HitsCoin(p, c) == Collide(p.x, p.y, PLAYER_W, PLAYER_H, c.x, c.y, COIN_SIZE, COIN_SIZE)

HitsPowerup(p, u) ==
    Collide(p.x, p.y, PLAYER_W, PLAYER_H, u.x, u.y, POWERUP_SIZE, POWERUP_SIZE)

HitsEnemy(p, e) ==
    Collide(p.x, p.y, PLAYER_W, PLAYER_H, e.x, ENEMY_Y, ENEMY_SIZE, ENEMY_SIZE)

PlatformHits(g) == SelectSeq(g.platforms, LAMBDA q : HitsPlatform(g.player, q))

CoinHits(g) == SelectSeq(g.coins, LAMBDA c : HitsCoin(g.player, c))

PowerupHits(g) == SelectSeq(g.powerups, LAMBDA u : HitsPowerup(g.player, u))

EnemyHits(g) == SelectSeq(g.enemies, LAMBDA e : HitsEnemy(g.player, e))

\* The scan for the hit with the greatest bottom, starting from hits[0].
\* Faulty variant of Lowest: the last platform of hits, whatever its bottom.
LastHit(hits) == hits[Len(hits)]

Lowest(hits) ==
    LET F[i \in 0..Len(hits)] ==
            IF i = 0 THEN hits[1]
            ELSE IF hits[i].y + PLATFORM_H > F[i - 1].y + PLATFORM_H
                 THEN hits[i] ELSE F[i - 1]
    IN  F[Len(hits)]

\* Player against platforms.
Land(g) ==
    LET hits == PlatformHits(g)
    IN  IF Len(hits) > 0 /\ VelocityPositive(g.player)
        THEN [g EXCEPT !.player.y = Lowest(hits).y - PLAYER_H,
                       !.player.velocity_y = 0,
                       !.player.vy_base = 0,
                       !.player.on_ground = TRUE,
                       !.player.jumping = FALSE]
        ELSE g

\* Faulty variant of CollectCoin: the value taken off the score.
CollectCoinLosing(g, value, ex) ==
    [g EXCEPT !.player.score = @ - value]

\* Faulty variant of CollectCoin: >= for >, so that every coin spawns an enemy.
CollectCoinEveryCoin(g, value, ex) ==
    LET score == g.player.score + value
        crossed == score \div ENEMY_SPAWN_SCORE_INTERVAL
                     >= (score - value) \div ENEMY_SPAWN_SCORE_INTERVAL
    IN  [g EXCEPT !.player.score = score,
                  !.enemies = IF crossed /\ Len(@) < MAX_ENEMIES
                              THEN Append(@, NewEnemy(ex)) ELSE @]

\* Faulty variant of CollectCoin: the cap on the number of enemies forgotten.
CollectCoinNoCap(g, value, ex) ==
    LET score == g.player.score + value
        crossed == score \div ENEMY_SPAWN_SCORE_INTERVAL
                     > (score - value) \div ENEMY_SPAWN_SCORE_INTERVAL
    IN  [g EXCEPT !.player.score = score,
                  !.enemies = IF crossed THEN Append(@, NewEnemy(ex)) ELSE @]

\* One turn of the loop over coin_hits: the coin's value, then the enemy spawn
\* when the score crosses a multiple of the interval (ex is the random x).
CollectCoin(g, value, ex) ==
    LET score == g.player.score + value
        crossed == score \div ENEMY_SPAWN_SCORE_INTERVAL
                     > (score - value) \div ENEMY_SPAWN_SCORE_INTERVAL
    IN  [g EXCEPT !.player.score = score,
                  !.enemies = IF crossed /\ Len(@) < MAX_ENEMIES
                              THEN Append(@, NewEnemy(ex)) ELSE @]

\* Faulty variant of CollectCoins: the hits stay in the group (dokill False).
CollectCoinsKeep(g, ex) ==
    LET n == Len(CoinHits(g))
        F[i \in 0..n] == IF i = 0 THEN g ELSE CollectCoin(F[i - 1], COIN_VALUE, ex)
    IN  F[n]

\* Player against coins: the hits leave the group, then the loop over them.
CollectCoins(g, ex) ==
    LET n == Len(CoinHits(g))
        g0 == [g EXCEPT !.coins = SelectSeq(@, LAMBDA c : ~HitsCoin(g.player, c))]
        F[i \in 0..n] == IF i = 0 THEN g0 ELSE CollectCoin(F[i - 1], COIN_VALUE, ex)
    IN  F[n]

\* Faulty variant of Heal: the cap at 100 forgotten.
HealNoCap(health) == health + POWERUP_HEAL

Heal(health) == Min(MAX_HEALTH, health + POWERUP_HEAL)

\* Faulty variant of CollectPowerups: one heal however many powerups were hit.
CollectPowerupsOnce(g) ==
    [g EXCEPT !.powerups = SelectSeq(@, LAMBDA u : ~HitsPowerup(g.player, u)),
              !.player.health = IF Len(PowerupHits(g)) > 0 THEN Heal(@) ELSE @]

\* Player against powerups.
CollectPowerups(g) ==
    LET n == Len(PowerupHits(g))
        F[i \in 0..n] == IF i = 0 THEN g.player.health ELSE Heal(F[i - 1])
    IN  [g EXCEPT !.powerups = SelectSeq(@, LAMBDA u : ~HitsPowerup(g.player, u)),
                  !.player.health = F[n]]

\* Faulty variant of Damage: the damage taken once for every overlapping enemy.
DamagePerEnemy(health, hits) == health - ENEMY_DAMAGE * hits

\* The damage of one pass with `hits` overlapping enemies (hits >= 1).
Damage(health, hits) == health - ENEMY_DAMAGE

\* Faulty variant of HitEnemies: the game ends only below 0.
HitEnemiesBelowZero(g) ==
    LET hits == EnemyHits(g)
    IN  IF Len(hits) > 0
        THEN LET h == Damage(g.player.health, Len(hits))
             IN  [g EXCEPT !.player.health = h,
                           !.game_over = IF h < 0 THEN TRUE ELSE @]
        ELSE g

\* Faulty variant of HitEnemies: the game ends on the health before the hit.
HitEnemiesEndEarly(g) ==
    LET hits == EnemyHits(g)
    IN  IF Len(hits) > 0
        THEN LET h == Damage(g.player.health, Len(hits))
             IN  [g EXCEPT !.player.health = h,
                           !.game_over = IF h <= ENEMY_DAMAGE THEN TRUE ELSE @]
        ELSE g

\* Player against enemies.
HitEnemies(g) ==
    LET hits == EnemyHits(g)
    IN  IF Len(hits) > 0
        THEN LET h == Damage(g.player.health, Len(hits))
             IN  [g EXCEPT !.player.health = h,
                           !.game_over = IF h <= 0 THEN TRUE ELSE @]
        ELSE g

HandleCollisions(g, ex) == HitEnemies(CollectPowerups(CollectCoins(Land(g), ex)))

\* Game.update up to the collision pass: spawn_coin at clock reading t, then
\* all_sprites.update().
SpawnAndAdvance(g, t, d) == UpdateSprites(SpawnCoin(g, t, d))

\* handle_events: inp = [quit, space, r, left, right]; rs = [lay, exs] are the
\* draws of the setup_level a restart runs.
KeyVelocity(inp) ==
    IF inp.right THEN PLAYER_SPEED
    ELSE IF inp.left THEN 0 - PLAYER_SPEED
    ELSE 0

\* Faulty variant of HandleEvents: the restart rebuilds the level, not the player.
HandleEventsKeepPlayer(g, inp, rs) ==
    LET g1 == IF inp.space THEN [g EXCEPT !.player = PlayerJump(@)] ELSE g
        g2 == IF inp.r /\ g1.game_over
              THEN [NewGame(g1.num_platforms, rs.lay, rs.exs) EXCEPT !.player = g1.player]
              ELSE g1
        g3 == IF inp.quit THEN [g2 EXCEPT !.running = FALSE] ELSE g2
    IN  [g3 EXCEPT !.player.velocity_x = KeyVelocity(inp)]

HandleEvents(g, inp, rs) ==
    LET g1 == IF inp.space THEN [g EXCEPT !.player = PlayerJump(@)] ELSE g
        g2 == IF inp.r /\ g1.game_over
              THEN NewGame(g1.num_platforms, rs.lay, rs.exs)
              ELSE g1
        g3 == IF inp.quit THEN [g2 EXCEPT !.running = FALSE] ELSE g2
    IN  [g3 EXCEPT !.player.velocity_x = KeyVelocity(inp)]

\* Does this pass spawn an enemy (so that its random x is drawn)?
EnemySpawnDue(g) ==
    /\ Len(g.coins) > 0
    /\ Len(CollectCoins(Land(g), 0).enemies) > Len(g.enemies)

\* ------------------------------------------------------------------ state
VARIABLES
    game,     \* the Game object: its flags, its player and its sprite groups
    now,      \* the last reading of pygame.time.get_ticks()
    frame,    \* iterations of Game.run so far
    updated,  \* did the last iteration run Game.update?
    pre       \* the player, coins and powerups as the last iteration's
              \* handle_collisions found them (as handle_events left them,
              \* when the iteration ran no update)

vars == <<game, now, frame, updated, pre>>

\* ----------------------------------------------------- inputs and draws
Input(q, s, r, l, rt) == [quit |-> q, space |-> s, r |-> r, left |-> l, right |-> rt]

NoSpawn == [x |-> 0, y |-> 0, powerup |-> FALSE]

NoRestart == [lay |-> << >>, exs |-> << >>]

Plat(x, w, m) == [x |-> x, w |-> w, moving |-> m]

Snapshot(g) == [player |-> g.player, coins |-> g.coins, powerups |-> g.powerups]

\* Faulty variant of RunIteration: update runs whether or not the game is over.
RunIterationNoGate(Inputs, Dts, Spawns, EnemyXs, Restarts) ==
    /\ game.running
    /\ \E inp \in Inputs, dt \in Dts :
         \E rs \in (IF inp.r /\ game.game_over THEN Restarts ELSE {NoRestart}) :
           LET t == now + dt
               g1 == HandleEvents(game, inp, rs)
           IN  /\ now' = t
               /\ frame' = frame + 1
               /\ updated' = TRUE
               /\ \E d \in (IF SpawnDue(g1, t) THEN Spawns ELSE {NoSpawn}) :
                     LET g3 == SpawnAndAdvance(g1, t, d)
                     IN  \E ex \in (IF EnemySpawnDue(g3) THEN EnemyXs ELSE {0}) :
                           /\ pre' = Snapshot(g3)
                           /\ game' = HandleCollisions(g3, ex)

\* Faulty variant of RunIteration: update resolves the collisions first and
\* spawns and advances after.
RunIterationCollideFirst(Inputs, Dts, Spawns, EnemyXs, Restarts) ==
    /\ game.running
    /\ \E inp \in Inputs, dt \in Dts :
         \E rs \in (IF inp.r /\ game.game_over THEN Restarts ELSE {NoRestart}) :
           LET t == now + dt
               g1 == HandleEvents(game, inp, rs)
           IN  /\ now' = t
               /\ frame' = frame + 1
               /\ updated' = ~g1.game_over
               /\ pre' = Snapshot(g1)
               /\ IF g1.game_over
                  THEN game' = g1
                  ELSE \E ex \in (IF EnemySpawnDue(g1) THEN EnemyXs ELSE {0}) :
                         LET g2 == HandleCollisions(g1, ex)
                         IN  \E d \in (IF SpawnDue(g2, t) THEN Spawns ELSE {NoSpawn}) :
                               game' = SpawnAndAdvance(g2, t, d)

\* One iteration of the loop of Game.run: handle_events, then update unless
\* the game is over (draw and draw_game_over change no state).  The clock
\* advances by dt; the random draws come from the given sets.
RunIteration(Inputs, Dts, Spawns, EnemyXs, Restarts) ==
    /\ game.running
    /\ \E inp \in Inputs, dt \in Dts :
         \E rs \in (IF inp.r /\ game.game_over THEN Restarts ELSE {NoRestart}) :
           LET t == now + dt
               g1 == HandleEvents(game, inp, rs)
           IN  /\ now' = t
               /\ frame' = frame + 1
               /\ updated' = ~g1.game_over
               /\ IF g1.game_over
                  THEN /\ pre' = Snapshot(g1)
                       /\ game' = g1
                  ELSE \E d \in (IF SpawnDue(g1, t) THEN Spawns ELSE {NoSpawn}) :
                         LET g3 == SpawnAndAdvance(g1, t, d)
                         IN  \E ex \in (IF EnemySpawnDue(g3) THEN EnemyXs ELSE {0}) :
                               /\ pre' = Snapshot(g3)
                               /\ game' = HandleCollisions(g3, ex)

InitWith(Nums, Lays, Starts, Times) ==
    /\ \E num \in Nums, lay \in Lays, exs \in Starts : game = NewGame(num, lay, exs)
    /\ now \in Times
    /\ frame = 0
    /\ updated = FALSE
    /\ pre = Snapshot(game)

RestartsOf(Lays, Starts) == {[lay |-> l, exs |-> e] : l \in Lays, e \in Starts}

\* Held left/right keys with or without a SPACE key-down.
MoveInputs ==
    {Input(FALSE, s, FALSE, k[1], k[2]) :
        s \in BOOLEAN, k \in {<<FALSE, FALSE>>, <<TRUE, FALSE>>, <<FALSE, TRUE>>}}

RestartInput == Input(FALSE, FALSE, TRUE, FALSE, FALSE)

\* The clock's step at FPS frames a second, and the shortest step after which
\* a coin is due.
FRAME_MS == 1000 \div FPS + 1
LAG_MS == COIN_SPAWN_RATE + 1

\* ------------------------------------------------------ specification Spec
\* One platform under the player's column and two enemies walking through
\* it.  The clock jumps in each of the first LagFrames iterations, so each
\* spawns a coin, with or without its powerup, and then runs at the frame
\* rate; the keys are left alone for the first QuietFrames iterations, while
\* the player falls from its starting point.
MaxFrames == 36
LagFrames == 2
QuietFrames == 23

NoKeys == Input(FALSE, FALSE, FALSE, FALSE, FALSE)

ArenaLayouts == {<<Plat(230, 100, FALSE)>>}

ArenaStarts == {<<200, 230, 1100>>}

ArenaSpawns == {[x |-> 300, y |-> 615, powerup |-> b] : b \in BOOLEAN}

Init == InitWith({1}, ArenaLayouts, ArenaStarts, {0})

Frame ==
    /\ frame < MaxFrames
    /\ RunIteration(IF frame < QuietFrames THEN {NoKeys} ELSE MoveInputs \cup {RestartInput},
                    IF frame < LagFrames THEN {LAG_MS} ELSE {FRAME_MS},
                    ArenaSpawns, {0}, RestartsOf(ArenaLayouts, ArenaStarts))

Next == Frame

Spec == Init /\ [][Next]_vars

\* ------------------------------------------------- specification SpecClimb
\* Fifteen platforms stacked over the player's column, the upper three
\* moving; every key input from the first iteration on; no coin is due.
MaxClimbFrames == 21

ClimbLayouts == {[i \in 1..MAX_PLATFORMS |-> Plat(230, 100, i > 12)]}

ClimbStarts == {<<300, 640, 1100>>}

InitClimb == InitWith({MAX_PLATFORMS}, ClimbLayouts, ClimbStarts, {0})

ClimbFrame ==
    /\ frame < MaxClimbFrames
    /\ RunIteration(MoveInputs, {FRAME_MS}, {NoSpawn}, {0},
                    RestartsOf(ClimbLayouts, ClimbStarts))

NextClimb == ClimbFrame

SpecClimb == InitClimb /\ [][NextClimb]_vars

\* ------------------------------------------------- specification SpecCoins
\* A long run on the one platform under the player's column: the clock jumps
\* in every iteration, so every iteration spawns a coin, in the column or (at
\* most MaxLooseCoins at a time) out of the player's reach.  The first session
\* ends when an enemy walks through the column; the player restarts at once
\* and the second session, with the enemies out of the way, runs until the
\* score has passed 4000.  No key is held.
MaxCoinFrames == 475
MaxLooseCoins == 2

CoinStarts == {<<110, 600, 900>>}

CoinRestartStarts == {<<300, 600, 900>>}

ColumnCoin == [x |-> 275, y |-> 615, powerup |-> FALSE]

LooseCoin == [x |-> 800, y |-> 400, powerup |-> FALSE]

CoinEnemyXs == {600}

InitCoins == InitWith({1}, ArenaLayouts, CoinStarts, {0})

CoinFrame ==
    /\ frame < MaxCoinFrames
    /\ RunIteration(IF game.game_over THEN {RestartInput} ELSE {NoKeys},
                    {LAG_MS},
                    IF Len(game.coins) < MaxLooseCoins
                    THEN {ColumnCoin, LooseCoin} ELSE {ColumnCoin},
                    CoinEnemyXs, RestartsOf(ArenaLayouts, CoinRestartStarts))

NextCoins == CoinFrame

SpecCoins == InitCoins /\ [][NextCoins]_vars

\* ------------------------------------------------- specification SpecSetup
\* The start of the program: the text typed at the prompt of
\* get_platform_count, any string of at most MaxTextLen of the keys PromptKeys,
\* becomes the platform count of the session; and, beside it, Game(num) for
\* every num within MaxRequest of the range 1..MAX_PLATFORMS, asked of the
\* constructor directly.  Game(0) is left out: line 273 divides by
\* num_platforms and raises ZeroDivisionError, so no session is built.
MaxTextLen == 3
MaxRequest == 2
MaxSetupFrames == 6

PromptKeys == {"-", "0", "1", "7", "x"}

PromptTexts == UNION {[1..n -> PromptKeys] : n \in 0..MaxTextLen}

IsDigit(c) == c \in {"0", "1", "7"}

DigitValue(c) == CASE c = "0" -> 0 [] c = "1" -> 1 [] c = "7" -> 7

\* int(text) succeeds: digits, after an optional sign.
IsInt(text) ==
    LET from == IF Len(text) > 0 /\ text[1] = "-" THEN 2 ELSE 1
    IN  /\ Len(text) >= from
        /\ \A i \in from..Len(text) : IsDigit(text[i])

IntValue(text) ==
    LET from == IF text[1] = "-" THEN 2 ELSE 1
        F[i \in (from - 1)..Len(text)] ==
            IF i < from THEN 0 ELSE F[i - 1] * 10 + DigitValue(text[i])
    IN  IF from = 2 THEN 0 - F[Len(text)] ELSE F[Len(text)]

Max(a, b) == IF a > b THEN a ELSE b

\* The try/except at the end of get_platform_count.
GetPlatformCount(text) ==
    IF IsInt(text) THEN Max(1, Min(IntValue(text), MAX_PLATFORMS)) ELSE 5

RequestedCounts == ((0 - MaxRequest)..(MAX_PLATFORMS + MaxRequest)) \ {0}

SetupLayouts == {[i \in 1..MAX_PLATFORMS |-> Plat(600, 100, i % 2 = 0)]}

InitSetup ==
    InitWith({GetPlatformCount(text) : text \in PromptTexts} \cup RequestedCounts,
             SetupLayouts, ClimbStarts, {0})

SetupFrame ==
    /\ frame < MaxSetupFrames
    /\ RunIteration(MoveInputs, {FRAME_MS}, {NoSpawn}, {0},
                    RestartsOf(SetupLayouts, ClimbStarts))

NextSetup == SetupFrame

SpecSetup == InitSetup /\ [][NextSetup]_vars

\* --------------------------------------------- specification SpecPlatforms
\* Four platforms, the draws for all of them saying "moving", one at each
\* edge of the playfield; no key is held, and the coin that comes due is out
\* of the player's reach.  The run is longer than one full swing of a
\* moving platform.
MaxPlatformFrames == 260

SwingLayouts ==
    {<<Plat(230, 100, TRUE), Plat(0, 80, TRUE), Plat(1000, 100, TRUE), Plat(500, 150, b)>> :
        b \in BOOLEAN}

InitPlatforms == InitWith({4}, SwingLayouts, ClimbStarts, {0})

PlatformFrame ==
    /\ frame < MaxPlatformFrames
    /\ RunIteration({NoKeys}, {FRAME_MS}, {LooseCoin}, {0},
                    RestartsOf(SwingLayouts, ClimbStarts))

NextPlatforms == PlatformFrame

SpecPlatforms == InitPlatforms /\ [][NextPlatforms]_vars

\* ================================================================ claims
\* What the collision pass of the last iteration saw, from the player's
\* rectangle as the landing rule left it (game.player) and the sprites the
\* pass started with (pre).
CoinsHit == {i \in 1..Len(pre.coins) : HitsCoin(game.player, pre.coins[i])}

PowerupsHit == {i \in 1..Len(pre.powerups) : HitsPowerup(game.player, pre.powerups[i])}

EnemiesHit == {i \in 1..Len(game.enemies) : HitsEnemy(game.player, game.enemies[i])}

\* The health the enemy rule of the last pass started from: the health at the
\* start of the pass raised by 30 for every powerup collected, capped at 100.
HealthAfterPowerups ==
    Min(MAX_HEALTH, pre.player.health + POWERUP_HEAL * Cardinality(PowerupsHit))

\* C1: in every reachable state the player's health is between 0 and 100.
HealthInRange == 0 <= game.player.health /\ game.player.health <= MAX_HEALTH

\* C1 witness: enemy hits have taken the health down to 0 and ended the game.
HealthInRangeWitness ==
    /\ updated
    /\ game.player.health = 0
    /\ game.game_over
    /\ pre.player.health = ENEMY_DAMAGE

\* C4: a pass in which an enemy overlaps the player takes 10 off the health
\* (off the health the pass's powerups left) and ends the game when the result
\* is 0 or less; a pass without an overlapping enemy takes nothing off and
\* does not end the game.
EnemyDamageRule ==
    updated =>
        IF EnemiesHit # {}
        THEN /\ game.player.health = HealthAfterPowerups - ENEMY_DAMAGE
             /\ game.game_over = (game.player.health <= 0)
        ELSE /\ game.player.health = HealthAfterPowerups
             /\ game.player.health >= pre.player.health
             /\ ~game.game_over

\* C4 witness: health 10, one overlapping enemy, no powerup: health 0, game over.
EnemyDamageWitness ==
    /\ updated
    /\ pre.player.health = ENEMY_DAMAGE
    /\ Cardinality(EnemiesHit) = 1
    /\ PowerupsHit = {}
    /\ game.player.health = 0
    /\ game.game_over

\* C5 as stated: k >= 2 overlapping enemies take 10*k off the health.
DamagePerOverlappingEnemy ==
    (updated /\ Cardinality(EnemiesHit) >= 2) =>
        game.player.health = HealthAfterPowerups - ENEMY_DAMAGE * Cardinality(EnemiesHit)

\* C5 amended: k >= 2 overlapping enemies take 10 off the health, as one does.
DamageOncePerPass ==
    (updated /\ Cardinality(EnemiesHit) >= 2) =>
        game.player.health = HealthAfterPowerups - ENEMY_DAMAGE

\* C5 witness: a pass with two overlapping enemies and no powerup.
DamageOncePerPassWitness ==
    /\ updated
    /\ Cardinality(EnemiesHit) = 2
    /\ PowerupsHit = {}
    /\ game.player.health = pre.player.health - ENEMY_DAMAGE

\* C9: a pass removes exactly the powerups that overlap the player and leaves
\* the others in place, and raises the health by 30 for each one removed,
\* never above 100 (the enemy rule of the same pass then acts on that health).
PowerupRule ==
    updated =>
        /\ game.powerups = SelectSeq(pre.powerups, LAMBDA u : ~HitsPowerup(game.player, u))
        /\ game.player.health
             = HealthAfterPowerups - (IF EnemiesHit # {} THEN ENEMY_DAMAGE ELSE 0)
        /\ (PowerupsHit = {} => HealthAfterPowerups = pre.player.health)

\* C9 witness: health 70 and one powerup collected: 100 before the enemy rule.
PowerupRuleWitness ==
    /\ updated
    /\ pre.player.health = 70
    /\ Cardinality(PowerupsHit) = 1
    /\ Len(game.powerups) = Len(pre.powerups) - 1
    /\ HealthAfterPowerups = MAX_HEALTH

\* A restart: the iteration starts with the game over and ends with it running.
Restarted == game.game_over /\ ~game'.game_over

\* C3: the score is never negative, no iteration of a session lowers it, and
\* a restart starts it again from 0 (plus the coins of the restart's own pass).
ScoreNeverDecreases ==
    /\ [](game.player.score >= 0)
    /\ [][IF Restarted
          THEN game'.player.score = COIN_VALUE * Cardinality(CoinsHit')
          ELSE game'.player.score >= game.player.score]_vars

\* C3 witness: a pass has raised a score that was already above 0.
ScoreNeverDecreasesWitness ==
    /\ updated
    /\ pre.player.score > 0
    /\ game.player.score > pre.player.score

\* C6: the enemies after an iteration are those before it (the three fresh
\* ones after a restart) plus one for every coin of the pass, taken in turn,
\* whose value moves score // 500 up while fewer than 10 enemies exist; an
\* iteration without update creates none.
EnemySpawnRule ==
    [][LET before == IF Restarted THEN INITIAL_ENEMIES ELSE Len(game.enemies)
           n == Cardinality(CoinsHit')
           s == pre'.player.score
           count[j \in 0..n] ==
               IF j = 0 THEN before
               ELSE IF /\ (s + COIN_VALUE * j) \div ENEMY_SPAWN_SCORE_INTERVAL
                            > (s + COIN_VALUE * (j - 1)) \div ENEMY_SPAWN_SCORE_INTERVAL
                       /\ count[j - 1] < MAX_ENEMIES
                    THEN count[j - 1] + 1
                    ELSE count[j - 1]
       IN  IF updated'
           THEN /\ Len(game'.enemies) = count[n]
                /\ \A i \in (before + 1)..Len(game'.enemies) :
                       game'.enemies[i].direction = 1
           ELSE Len(game'.enemies) = Len(game.enemies)]_vars

\* C6 witness: the coin that takes the score from 490 to 500 adds the fourth enemy.
EnemySpawnRuleWitness ==
    /\ updated
    /\ pre.player.score = 490
    /\ game.player.score = 500
    /\ Len(game.enemies) = INITIAL_ENEMIES + 1

\* C7: there are always between 3 and 10 enemies; their number never falls
\* within a session, and a restart brings it back to 3.
EnemyCountRule ==
    /\ [](INITIAL_ENEMIES <= Len(game.enemies) /\ Len(game.enemies) <= MAX_ENEMIES)
    /\ [][IF Restarted
          THEN Len(game'.enemies) = INITIAL_ENEMIES
          ELSE Len(game'.enemies) >= Len(game.enemies)]_vars

\* C7 witness: ten enemies, and the score has crossed 4000 since.
EnemyCountRuleWitness ==
    /\ Len(game.enemies) = MAX_ENEMIES
    /\ game.player.score >= 4000

\* C8: a pass removes exactly the coins that overlap the player, leaves the
\* others in place and adds 10 to the score for each one removed; the coins a
\* pass starts with are those the iteration before left (none after a
\* restart) and at most one new coin, so a removed coin never comes back.
CoinRule ==
    /\ [](updated =>
            /\ game.coins = SelectSeq(pre.coins, LAMBDA c : ~HitsCoin(game.player, c))
            /\ game.player.score = pre.player.score + COIN_VALUE * Cardinality(CoinsHit))
    /\ [][LET old == IF Restarted THEN << >> ELSE game.coins
          IN  \/ pre'.coins = old
              \/ /\ Len(pre'.coins) = Len(old) + 1
                 /\ SubSeq(pre'.coins, 1, Len(old)) = old]_vars

\* C8 witness: a pass collects several coins at once and leaves another.
CoinRuleWitness ==
    /\ updated
    /\ Cardinality(CoinsHit) >= 2
    /\ Len(game.coins) >= 1
    /\ game.player.score = pre.player.score + COIN_VALUE * Cardinality(CoinsHit)

\* C2 as stated: after every simulation step the player's rectangle lies
\* inside the playfield on all four sides.
PlayerInsidePlayfield ==
    updated =>
        /\ game.player.x >= 0
        /\ game.player.x + PLAYER_W <= WIDTH
        /\ game.player.y >= 0
        /\ game.player.y + PLAYER_H <= HEIGHT

\* The platforms the player overlaps when the collision pass starts.
PlatformsHit ==
    {i \in 1..Len(game.platforms) : HitsPlatform(pre.player, game.platforms[i])}

\* C10: a pass that starts with the player overlapping platforms and moving
\* down ends with velocity_y 0, on_ground set, jumping cleared and the
\* player's bottom on the top of the overlapping platform with the lowest
\* bottom edge, the first such in the group; a pass that starts with the
\* player not moving down, or overlapping no platform, leaves the player's
\* position, velocity_y, on_ground and jumping as they were.
LandingRule ==
    updated =>
        IF PlatformsHit # {} /\ VelocityPositive(pre.player)
        THEN LET low == CHOOSE i \in PlatformsHit :
                            \A j \in PlatformsHit :
                                \/ game.platforms[j].y < game.platforms[i].y
                                \/ game.platforms[j].y = game.platforms[i].y /\ i <= j
             IN  /\ game.player.velocity_y = 0
                 /\ game.player.vy_base = 0
                 /\ game.player.on_ground
                 /\ ~game.player.jumping
                 /\ game.player.y + PLAYER_H = game.platforms[low].y
                 /\ game.player.x = pre.player.x
        ELSE /\ game.player.x = pre.player.x
             /\ game.player.y = pre.player.y
             /\ game.player.velocity_y = pre.player.velocity_y
             /\ game.player.vy_base = pre.player.vy_base
             /\ game.player.on_ground = pre.player.on_ground
             /\ game.player.jumping = pre.player.jumping

\* C10 witness: the player came down onto two platforms at once and stands
\* on the lower one, which is not the last of the two in the group.
LandingRuleWitness ==
    /\ updated
    /\ Cardinality(PlatformsHit) >= 2
    /\ VelocityPositive(pre.player)
    /\ game.player.on_ground
    /\ \E i \in PlatformsHit :
           /\ game.player.y + PLAYER_H = game.platforms[i].y
           /\ \A j \in PlatformsHit : j >= i

\* C11: a K_r key-down while the game is over leaves handle_events with a
\* running session of the same platform count, health 100, score 0, three
\* enemies and no coin or powerup (the update of the same iteration then
\* starts from it: the player it advances is the fresh one); a K_r key-down
\* while the game is not over leaves what no key at all leaves.
RestartRule ==
    /\ [](IF game.game_over
          THEN \A rs \in RestartsOf(ArenaLayouts, ArenaStarts) :
                   LET g == HandleEvents(game, RestartInput, rs)
                   IN  /\ g.running /\ ~g.game_over
                       /\ g.num_platforms = game.num_platforms
                       /\ Len(g.platforms) = game.num_platforms
                       /\ g.player.health = MAX_HEALTH
                       /\ g.player.score = 0
                       /\ Len(g.enemies) = INITIAL_ENEMIES
                       /\ g.coins = << >>
                       /\ g.powerups = << >>
          ELSE HandleEvents(game, RestartInput, NoRestart)
                   = HandleEvents(game, NoKeys, NoRestart))
    /\ [][Restarted =>
            /\ updated'
            /\ game'.num_platforms = game.num_platforms
            /\ pre'.player = PlayerUpdate(NewPlayer)
            /\ Len(game'.enemies) = INITIAL_ENEMIES
            /\ Len(pre'.coins) <= 1
            /\ Len(pre'.powerups) <= 1]_vars

\* C11 witness: an iteration after the first has advanced a fresh player, with
\* health 100, score 0 and three enemies: a game that was over was restarted.
RestartRuleWitness ==
    /\ frame > 1
    /\ updated
    /\ pre.player = PlayerUpdate(NewPlayer)
    /\ game.player.health = MAX_HEALTH
    /\ game.player.score = 0
    /\ Len(game.enemies) = INITIAL_ENEMIES
    /\ Len(game.platforms) = game.num_platforms

\* An iteration that starts and ends with the game over.
StaysOver == game.game_over /\ game'.game_over

\* C12 as stated: while the game stays over, the player, with its velocity
\* and its on_ground and jumping flags, and every other sprite stay as they are.
GameOverFreezesAll ==
    [][StaysOver =>
         /\ game'.player = game.player
         /\ game'.platforms = game.platforms
         /\ game'.enemies = game.enemies
         /\ game'.coins = game.coins
         /\ game'.powerups = game.powerups]_vars

\* C12 amended: while the game stays over no update runs, and the player's
\* position, score and health and every other sprite stay as they are; but
\* handle_events still acts on the player: velocity_x follows the held keys,
\* and a SPACE key-down with on_ground set and jumping clear is a jump.
GameOverFreezesUpdate ==
    [][StaysOver =>
         /\ ~updated'
         /\ game'.platforms = game.platforms
         /\ game'.enemies = game.enemies
         /\ game'.coins = game.coins
         /\ game'.powerups = game.powerups
         /\ game'.last_coin_spawn = game.last_coin_spawn
         /\ game'.player.x = game.player.x
         /\ game'.player.y = game.player.y
         /\ game'.player.score = game.player.score
         /\ game'.player.health = game.player.health
         /\ game'.player.velocity_x \in {0 - PLAYER_SPEED, 0, PLAYER_SPEED}
         /\ \/ [game'.player EXCEPT !.velocity_x = 0]
                  = [game.player EXCEPT !.velocity_x = 0]
            \/ /\ game.player.on_ground /\ ~game.player.jumping
               /\ [game'.player EXCEPT !.velocity_x = 0]
                    = [game.player EXCEPT !.velocity_x = 0,
                                          !.velocity_y = JUMP_POWER,
                                          !.vy_base = JUMP_POWER,
                                          !.on_ground = FALSE,
                                          !.jumping = TRUE]]_vars

\* C12 witness: the game is over, no update ran, and the player has just
\* been given the velocity of a jump while a key is held.
GameOverFreezesUpdateWitness ==
    /\ game.game_over
    /\ ~updated
    /\ game.player.health <= 0
    /\ game.player.jumping
    /\ ~game.player.on_ground
    /\ game.player.velocity_y = JUMP_POWER
    /\ game.player.velocity_x # 0

AtRest ==
    \/ game.player.y + PLAYER_H = HEIGHT
    \/ \E i \in 1..Len(game.platforms) :
           /\ game.player.y + PLAYER_H = game.platforms[i].y
           /\ game.player.x < game.platforms[i].x + game.platforms[i].w
           /\ game.platforms[i].x < game.player.x + PLAYER_W

\* C14 as stated: at the end of every simulation step, on_ground implies
\* that the player stands on the floor or on a platform.
OnGroundMeansRest == (updated /\ game.player.on_ground) => AtRest

\* A jump took effect in this iteration.
JumpTook == ~game.player.jumping /\ game'.player.jumping

\* C15: Player.jump acts only with on_ground set and jumping clear, and then
\* sets velocity_y to JUMP_POWER, clears on_ground and sets jumping; in every
\* other state it changes nothing.  So an iteration in which a jump took
\* effect started with on_ground set and advanced the player from JUMP_POWER,
\* and every other iteration, whatever its SPACE input, advanced the player
\* as its velocity stood (between a jump and the next landing, in particular).
JumpRule ==
    /\ [](PlayerJump(game.player)
            = IF game.player.on_ground /\ ~game.player.jumping
              THEN [game.player EXCEPT !.velocity_y = JUMP_POWER,
                                       !.vy_base = JUMP_POWER,
                                       !.on_ground = FALSE,
                                       !.jumping = TRUE]
              ELSE game.player)
    /\ [][IF Restarted THEN TRUE
          ELSE IF JumpTook
          THEN /\ game.player.on_ground
               /\ ~pre'.player.on_ground
               /\ pre'.player.vy_base = JUMP_POWER
               /\ pre'.player.velocity_y
                    = JUMP_POWER + (IF updated' THEN GRAVITY ELSE 0)
          ELSE \E vx \in {0 - PLAYER_SPEED, 0, PLAYER_SPEED} :
                   pre'.player
                     = IF updated'
                       THEN PlayerUpdate([game.player EXCEPT !.velocity_x = vx])
                       ELSE [game.player EXCEPT !.velocity_x = vx]]_vars

\* C15 witness: the player is in the air well after a jump took effect,
\* still on the velocity that jump gave it.
JumpRuleWitness ==
    /\ updated
    /\ game.player.jumping
    /\ ~game.player.on_ground
    /\ game.player.vy_base = JUMP_POWER
    /\ game.player.velocity_y >= JUMP_POWER + 5 * GRAVITY

\* C16: in every reachable state the game is over if and only if the
\* player's health is 0 or less.
GameOverIffNoHealth == game.game_over <=> (game.player.health <= 0)

\* C16 witness: the pass of the last iteration started with health left,
\* an enemy hit took the last of it, and the game is over.
GameOverIffNoHealthWitness ==
    /\ updated
    /\ pre.player.health > 0
    /\ EnemiesHit # {}
    /\ game.player.health <= 0
    /\ game.game_over

\* The enemy's rectangle lies within the playfield horizontally.
EnemyInside(e) == e.x >= 0 /\ e.x + ENEMY_SIZE <= WIDTH

\* The enemy is outside the playfield, is outside after its next update and
\* is back in its present state after the one after that: since Enemy.update
\* depends on nothing but the enemy, it flips outside the playfield forever.
EnemyStuck(e) ==
    /\ ~EnemyInside(e)
    /\ ~EnemyInside(EnemyUpdate(e))
    /\ EnemyUpdate(EnemyUpdate(e)) = e

\* C17 as stated: every enemy comes to lie inside the playfield, so none is
\* stuck flipping direction outside it; and an enemy that is inside is at
\* most one step of ENEMY_SPEED outside after its next update.
EnemiesReturn ==
    \A i \in 1..Len(game.enemies) :
        /\ ~EnemyStuck(game.enemies[i])
        /\ EnemyInside(game.enemies[i]) =>
               LET e == EnemyUpdate(game.enemies[i])
               IN  e.x >= 0 - ENEMY_SPEED /\ e.x + ENEMY_SIZE <= WIDTH + ENEMY_SPEED

\* C18: an iteration that updates spawns first (a coin, when one is due at
\* the new clock reading, joins the coins the iteration started with), then
\* advances every sprite, the ones just spawned included, and then resolves
\* the collisions on the advanced positions, the new coin and powerup among
\* the sprites tested, ending the game if the health is spent; an iteration
\* that finds the game over and does not restart it advances nothing.
StepOrder ==
    [][IF updated'
       THEN LET fresh == Restarted
                players == IF fresh THEN {NewPlayer}
                           ELSE {game.player, PlayerJump(game.player)}
                coins == IF fresh THEN << >> ELSE game.coins
                powerups == IF fresh THEN << >> ELSE game.powerups
                last == IF fresh THEN 0 ELSE game.last_coin_spawn
                spawned == game'.last_coin_spawn = now'
            IN  /\ spawned <=> (now' - last > COIN_SPAWN_RATE)
                /\ Len(pre'.coins) = Len(coins) + (IF spawned THEN 1 ELSE 0)
                /\ SubSeq(pre'.coins, 1, Len(coins)) = coins
                /\ Len(pre'.powerups) - Len(powerups) \in (IF spawned THEN {0, 1} ELSE {0})
                /\ \A i \in 1..Len(powerups) :
                       pre'.powerups[i] = PowerupUpdate(powerups[i])
                /\ \A i \in (Len(powerups) + 1)..Len(pre'.powerups) :
                       pre'.powerups[i].bounce = 1
                /\ \E q \in players, vx \in {0 - PLAYER_SPEED, 0, PLAYER_SPEED} :
                       pre'.player = PlayerUpdate([q EXCEPT !.velocity_x = vx])
                /\ ~fresh =>
                       /\ \A i \in 1..Len(game.enemies) :
                              game'.enemies[i] = EnemyUpdate(game.enemies[i])
                       /\ game'.platforms
                            = [i \in 1..Len(game.platforms) |->
                                   PlatformUpdate(game.platforms[i])]
                /\ game'.coins
                     = SelectSeq(pre'.coins, LAMBDA c : ~HitsCoin(game'.player, c))
                /\ game'.powerups
                     = SelectSeq(pre'.powerups, LAMBDA u : ~HitsPowerup(game'.player, u))
                /\ game'.game_over = (game'.player.health <= 0)
       ELSE /\ game.game_over /\ game'.game_over
            /\ game'.player.x = game.player.x /\ game'.player.y = game.player.y
            /\ game'.platforms = game.platforms
            /\ game'.enemies = game.enemies
            /\ game'.coins = game.coins
            /\ game'.powerups = game.powerups]_vars

\* C18 witness: the coin spawned in the last iteration was collected by the
\* collision pass of that same iteration.
StepOrderWitness ==
    /\ updated
    /\ game.last_coin_spawn = now
    /\ Len(pre.coins) \in CoinsHit
    /\ Len(game.coins) < Len(pre.coins)
    /\ game.player.score >= COIN_VALUE

\* C19: an iteration creates at most one coin, and only when the clock reads
\* more than COIN_SPAWN_RATE past the last spawn of the session (past 0 before
\* the session's first), which it then records; it creates at most one
\* powerup, and none without a coin; an iteration without update creates
\* neither.  So the spawns of a session are more than COIN_SPAWN_RATE apart
\* and there are never more powerups created than coins.
SpawnGating ==
    [][LET last == IF Restarted THEN 0 ELSE game.last_coin_spawn
           newCoins == Len(pre'.coins) - (IF Restarted THEN 0 ELSE Len(game.coins))
           newPowerups == Len(pre'.powerups)
                            - (IF Restarted THEN 0 ELSE Len(game.powerups))
       IN  /\ newCoins \in {0, 1}
           /\ newPowerups \in {0, 1}
           /\ newPowerups <= newCoins
           /\ newCoins = 1 =>
                  /\ updated'
                  /\ now' - last > COIN_SPAWN_RATE
                  /\ game'.last_coin_spawn = now'
           /\ newCoins = 0 => game'.last_coin_spawn = last]_vars

\* C19 witness: the second spawn of a session, a coin with its powerup, more
\* than COIN_SPAWN_RATE after the first.
SpawnGatingWitness ==
    /\ updated
    /\ game.last_coin_spawn = now
    /\ now > 2 * COIN_SPAWN_RATE
    /\ Len(pre.coins) >= 2
    /\ Len(pre.powerups) >= 1

\* The updates of one full swing of a moving platform: out to one turn, back
\* through the origin to the other turn, and back to the origin.
SwingUpdates == 4 * (PLATFORM_RANGE \div PLATFORM_SPEED + 1)

\* Within k updates platform q is right (side = 1) or left (side = -1) of
\* its origin.
RECURSIVE ReachesSide(_, _, _)
ReachesSide(q, k, side) ==
    IF (q.x - q.start_x) * side > 0 THEN TRUE
    ELSE IF k = 0 THEN FALSE
    ELSE ReachesSide(PlatformUpdate(q), k - 1, side)

\* C20: a moving platform is never more than 102 from its origin, and from
\* every state it is in it reaches, within one swing, the right of its origin
\* and the left of it (so it keeps reaching both for ever); an update moves
\* it by PLATFORM_SPEED in its direction and reverses the direction exactly
\* when it leaves the platform more than 100 from the origin; the first
\* platform and every platform that is not moving stay where they are.
PlatformOscillation ==
    /\ [](/\ ~game.platforms[1].moving
          /\ \A i \in 1..Len(game.platforms) :
               LET q == game.platforms[i]
               IN  q.moving =>
                     /\ Abs(q.x - q.start_x) <= PLATFORM_RANGE + PLATFORM_SPEED
                     /\ ReachesSide(q, SwingUpdates, 1)
                     /\ ReachesSide(q, SwingUpdates, 0 - 1))
    /\ [][~Restarted =>
            \A i \in 1..Len(game.platforms) :
                LET q == game.platforms[i]
                    r == game'.platforms[i]
                IN  IF updated' /\ q.moving
                    THEN /\ r.x = q.x + PLATFORM_SPEED * q.direction
                         /\ r.y = q.y /\ r.start_x = q.start_x
                         /\ (r.direction = 0 - q.direction)
                              <=> (Abs(r.x - r.start_x) > PLATFORM_RANGE)
                         /\ r.direction \in {q.direction, 0 - q.direction}
                    ELSE r = q]_vars

\* C20 witness: a moving platform has turned at both ends of its swing and
\* is heading right again from 100 left of its origin, while the first
\* platform is where setup put it.
PlatformOscillationWitness ==
    /\ updated
    /\ game.platforms[1].x = game.platforms[1].start_x
    /\ \E i \in 2..Len(game.platforms) :
           /\ game.platforms[i].moving
           /\ game.platforms[i].direction = 1
           /\ game.platforms[i].x = game.platforms[i].start_x - PLATFORM_RANGE

====
